---- MODULE Spec2Model ----
(***************************************************************************)
(* Model of wristpy's GGIR autocalibration (src/wristpy/ggir/calibration.py)*)
(*                                                                         *)
(*   start_ggir_calibration : the expanding-window orchestrator            *)
(*   closest_point_fit      : stillness filter, sphere check, ICP loop,    *)
(*                            acceptance rule                              *)
(*   apply_calibration      : per-axis affine transform                    *)
(*                                                                         *)
(* Units.  Acceleration, rolling mean, rolling SD and offsets are integers *)
(* in units of 1e-4 g.  Scale factors are integers in hundredths           *)
(* (100 = 1.0).  Calibration errors are integers in units of 1e-5 g, the   *)
(* precision both errors are rounded to.  Residuals are integers in units  *)
(* of 1e-8 g^2.  The sampling rate is an integer in units of 2^-16 Hz      *)
(* (rate/65536 Hz), so that a 12-hour block is a handful of rows and the   *)
(* floating-point products of lines 60-61 are exact.                       *)
(*                                                                         *)
(* The fitter's arithmetic is carried out on these integers by the code's  *)
(* formulas, and only where it is exact: a square root, a quotient or a    *)
(* regression coefficient that is not a whole number of its unit has no    *)
(* value in this model (the CHOOSE that defines it has no candidate, which *)
(* TLC reports as an error), and neither has a rounding that sits exactly  *)
(* on a tie.  The still rows of the recordings below have rolling means    *)
(* whose norms, coefficients and errors are whole numbers of these units,  *)
(* so every value a behaviour of the model computes is the value the       *)
(* floating-point code computes, up to its rounding noise (about 1e-16).   *)
(***************************************************************************)
EXTENDS Integers, Sequences, FiniteSets, TLC

VARIABLES
    rec,                \* input: the recording, one row kind per sample
    time_data,          \* input: input_data.time, one timestamp per row
    sampling_rate,      \* input: input_data.sampling_rate, in 2^-16 Hz
    min_hours,          \* input: min_hours
    max_iter,           \* input: max_iter
    pc,                 \* position inside start_ggir_calibration / closest_point_fit
    nh, n12h, i_h,      \* orchestrator locals (lines 60-63)
    finished,           \* orchestrator local (lines 89, 96, 110)
    valid_calibration,  \* orchestrator local (lines 90, 111)
    offset, scale,      \* orchestrator locals assigned from the fit (lines 97-98)
    cal_err_start,      \* orchestrator local (line 99)
    cal_err_end,        \* orchestrator local (line 100)
    fit,                \* locals of the running closest_point_fit call
    result,             \* the OutputData returned, or the exception raised
    warnings,           \* warn() calls made so far
    fitLog,             \* history: one entry per closest_point_fit call
    applyLog,           \* history: one entry per apply_calibration call, the
                        \* table as it was when the call was made
    accel_raw           \* the table apply_calibration was handed, as it is now

vars == <<rec, time_data, sampling_rate, min_hours, max_iter, pc, nh, n12h, i_h, finished,
          valid_calibration, offset, scale, cal_err_start, cal_err_end, fit,
          result, warnings, fitLog, applyLog, accel_raw>>

(***************************************************************************)
(* Bounds of the model.                                                    *)
(***************************************************************************)
MaxRows == 4        \* longest recording, in rows
MaxRate == 4        \* largest sampling rate, in 2^-16 Hz
MaxNegRate == 1     \* most negative sampling rate tried, in 2^-16 Hz
MaxRounds == 5      \* closest_point_fit calls explored before the model stops
MaxIter == 4        \* largest max_iter argument
MaxFitRows == 3     \* longest recording of the runs that vary max_iter
MaxApplyRows == 2   \* longest table of the direct apply_calibration calls

(***************************************************************************)
(* Program constants.                                                      *)
(***************************************************************************)
sphere_crit == 3000 \* 0.3 g
sd_crit == 130      \* 0.013 g
tol == 1            \* 1e-10 g^2: two residuals, whole numbers of 1e-8 g^2,
                    \* differ by less than tol iff they are equal
MeanLimit == 20000  \* np.abs(acc_mean) < 2
ErrLimit == 1000    \* cal_err_end < 0.01
OneG == 10000       \* the 1 in abs(norm - 1), and the norm of a closest point
MaxWeight == 100    \* the initial weight and the cap of np.minimum(..., 100)

Inf == 1000000000   \* np.Inf, above every finite residual of the model
Unbound == <<"unbound">>   \* a Python local not assigned yet
NoFit == [active |-> FALSE]
NoResult == [kind |-> "none"]
NoTable == <<"none">>      \* no table has been handed to apply_calibration

Abs(x) == IF x < 0 THEN -x ELSE x
Min(a, b) == IF a < b THEN a ELSE b
Max(a, b) == IF a > b THEN a ELSE b

\* Python's int() of a float given in units of 2^-16: truncation toward
\* zero.  A product of whole numbers and a sampling rate in 2^-16 Hz is
\* such a float, and the floating-point product is exact below 2^53.
PyInt(x) == IF x >= 0 THEN x \div 65536 ELSE -((-x) \div 65536)

\* Python's seq[:n]: the first n items, all of them when n exceeds the
\* length, and all but the last -n when n is negative.
PySlice(s, n) ==
    LET stop == IF n >= 0 THEN Min(n, Len(s)) ELSE Max(Len(s) + n, 0)
    IN  SubSeq(s, 1, stop)

\* Python's seq[i] with negative indices counting from the end.
PyIndex(s, i) == IF i >= 0 THEN s[i + 1] ELSE s[Len(s) + i + 1]

(***************************************************************************)
(* The recording.  Each row carries the raw sample and the rolling mean    *)
(* and rolling SD the window-statistics provider reports for it.           *)
(*   1, 2  still, norm 0.625 g, beyond sphere_crit on every axis, opposite *)
(*         signs                                                           *)
(*   3     moving: the x SD equals sd_crit                                 *)
(*   4     still, norm 0.625 g, x exactly at -sphere_crit                  *)
(*   5     still, all zero                                                 *)
(*   6, 7  still, norm 1 g (a device already in calibration), opposite     *)
(*         signs                                                           *)
(*   8, 9  still, 1.99 and -2.01 times the unit vector (0.48, 0.6, 0.64):  *)
(*         a device that reads double and is biased along that vector      *)
(***************************************************************************)
RowKinds ==
    << [acc |-> << 3370,  3600,  3840>>, mean |-> << 3370,  3600,  3840>>, sd |-> <<50, 50, 50>>],
       [acc |-> <<-3370, -3600, -3840>>, mean |-> <<-3370, -3600, -3840>>, sd |-> <<50, 50, 50>>],
       [acc |-> <<15000, -2000,  3000>>, mean |-> << 4000,     0,  9000>>, sd |-> <<130, 50, 50>>],
       [acc |-> <<-3000, -2650, -4800>>, mean |-> <<-3000, -2650, -4800>>, sd |-> <<50, 50, 50>>],
       [acc |-> <<    0,     0,     0>>, mean |-> <<    0,     0,     0>>, sd |-> <<0, 0, 0>>],
       [acc |-> << 5392,  5760,  6144>>, mean |-> << 5392,  5760,  6144>>, sd |-> <<50, 50, 50>>],
       [acc |-> <<-5392, -5760, -6144>>, mean |-> <<-5392, -5760, -6144>>, sd |-> <<50, 50, 50>>],
       [acc |-> << 9552, 11940, 12736>>, mean |-> << 9552, 11940, 12736>>, sd |-> <<50, 50, 50>>],
       [acc |-> <<-9648,-12060,-12864>>, mean |-> <<-9648,-12060,-12864>>, sd |-> <<50, 50, 50>>] >>

\* The rows of a device out of calibration, and of one in calibration.
Kinds == 1..5
CalibratedKinds == 6..7

\* The recordings of the biased device: its two still rows, alone and
\* followed by a moving row.  Under line 255 the offset of this working set
\* grows by (0.0024, 0.003, 0.0032) g with every ICP round after the first,
\* and the end error by 0.005 g.
BiasedRecordings == {<<8, 9>>, <<8, 9, 3>>}

\* The max_iter arguments tried on them.  A fifth round would compute the
\* weight 1 / 0.015, which is not a whole number.
BiasedIters == {0, 1, 2, 3, 4}
Axes == 1..3

\* Every recording of at most n rows whose rows are of the given kinds.
Recordings(kinds, n) == UNION {[1..m -> kinds] : m \in 0..n}

\* input_data.acceleration: the three-column table of raw samples.
accel_data == [k \in 1..Len(rec) |-> RowKinds[rec[k]].acc]

MinHoursChoices == {12, 36}
Rates == (-MaxNegRate)..MaxRate
TimeStamps(n) == [k \in 1..n |-> k]

Zeros == <<0, 0, 0>>
Ones == <<100, 100, 100>>

\* A Python scalar, kept apart from the three-component vectors.
Scalar(x) == <<x>>

(***************************************************************************)
(* Arithmetic.                                                             *)
(***************************************************************************)
RECURSIVE Sum(_)
Sum(s) == IF s = <<>> THEN 0 ELSE Head(s) + Sum(Tail(s))

RECURSIVE GCD(_, _)
GCD(a, b) == IF b = 0 THEN a ELSE GCD(b, a % b)

RECURSIVE SeqGCD(_)
SeqGCD(s) == IF s = <<>> THEN 0 ELSE GCD(Head(s), SeqGCD(Tail(s)))

\* The r in lo..hi with r * r = n; no value when there is none.
RECURSIVE SqrtBetween(_, _, _)
SqrtBetween(n, lo, hi) ==
    IF lo > hi THEN CHOOSE r \in {} : r * r = n
    ELSE LET mid == (lo + hi) \div 2
         IN  IF mid * mid = n THEN mid
             ELSE IF mid * mid < n THEN SqrtBetween(n, mid + 1, hi)
             ELSE SqrtBetween(n, lo, mid - 1)

\* The square root of a perfect square n; no value for any other n.
Sqrt(n) == SqrtBetween(n, 0, 46340)

\* num / den for den # 0 when it is a whole number; no value otherwise.
ExactDiv(num, den) ==
    LET q == IF den > 0 THEN num \div den ELSE (-num) \div (-den)
    IN  CHOOSE c \in {q} : c * den = num

\* num / den rounded to the nearest integer, for num >= 0 and den > 0; no
\* value on an exact tie, which the code resolves by the rounding noise of
\* its floating-point mean.
DivNearest(num, den) ==
    LET q == num \div den
        r == num % den
    IN  IF 2 * r < den THEN q ELSE CHOOSE c \in {q + 1} : 2 * r > den

\* num / den in hundredths, for den > 0.
Hundredths(num, den) ==
    LET g == GCD(Abs(num), den)
    IN  ExactDiv(100 * (num \div g), den \div g)

SqNorm(row) == row[1] * row[1] + row[2] * row[2] + row[3] * row[3]

\* np.linalg.norm(rows, axis=1): the Euclidean norm of each row.
Norm(row) == Sqrt(SqNorm(row))

\* lines 234-236 and 267-269: np.round(np.mean(abs(norm - 1)), decimals=5),
\* in units of 1e-5 g.
CalError(rows) ==
    DivNearest(10 * Sum([k \in 1..Len(rows) |-> Abs(Norm(rows[k]) - OneG)]),
               Len(rows))

\* lines 239 and 266: (table * scale) + offset, row by row.
Affine(rows, sc, off) ==
    [k \in 1..Len(rows) |->
        [a \in Axes |-> ExactDiv(rows[k][a] * sc[a], 100) + off[a]]]

\* line 240: curr / norm(curr), each row projected on the unit sphere.
\* A row of norm 0 is 0/0 = NaN on every axis.
ClosestPoint(curr) ==
    [k \in 1..Len(curr) |->
        [a \in Axes |-> ExactDiv(curr[k][a] * OneG, Norm(curr[k]))]]

HasNaN(curr) == \E k \in 1..Len(curr) : SqNorm(curr[k]) = 0

(***************************************************************************)
(* lines 244-250: LinearRegression().fit(x, y, sample_weight=w) of one     *)
(* axis, the weighted least-squares line y = intercept + coef * x.  The    *)
(* line depends on the weights through their ratios only, so the sums are  *)
(* taken over the weights divided by their common factor.                  *)
(***************************************************************************)
LR_fit(x, y, w) ==
    LET g == SeqGCD(w)
        v == [k \in 1..Len(w) |-> w[k] \div g]
        W == Sum(v)
        Sx == Sum([k \in 1..Len(x) |-> v[k] * x[k]])
        Sy == Sum([k \in 1..Len(x) |-> v[k] * y[k]])
        Sxy == Sum([k \in 1..Len(x) |-> v[k] * x[k] * y[k]])
        Sxx == Sum([k \in 1..Len(x) |-> v[k] * x[k] * x[k]])
        num == W * Sxy - Sx * Sy
        den == W * Sxx - Sx * Sx
        coef == IF den = 0 THEN 0 ELSE Hundredths(num, den)
    IN  [coef_ |-> coef,
         intercept_ |-> ExactDiv(100 * Sy - coef * Sx, 100 * W)]

Column(rows, a) == [k \in 1..Len(rows) |-> rows[k][a]]

\* lines 244-250: the three per-axis fits of one round.
Regression(curr, closest_point, w) ==
    [a \in Axes |-> LR_fit(Column(curr, a), Column(closest_point, a), w)]

\* line 251: curr.iloc[:, k] = x_ @ LR.coef_, the fitted line without its
\* intercept.
Fitted(curr, lr) ==
    [k \in 1..Len(curr) |->
        [a \in Axes |-> ExactDiv(curr[k][a] * lr[a].coef_, 100)]]

\* curr - closest_point, row by row.
Diff(curr, closest_point) ==
    [k \in 1..Len(curr) |-> [a \in Axes |-> curr[k][a] - closest_point[k][a]]]

\* lines 258-260: 3 * np.mean(weights[:, None] * d ** 2 / weights.sum()),
\* the mean being over the 3n entries of the table.
Residual(d, w) ==
    ExactDiv(Sum([k \in 1..Len(d) |-> w[k] * SqNorm(d[k])]),
             Len(d) * Sum(w))

\* line 261: np.minimum(1 / norm(d, axis=1), 100); 1/0 is inf.  The cap
\* applies when norm(d) <= 1/100.
NextWeights(d) ==
    [k \in 1..Len(d) |->
        IF SqNorm(d[k]) <= ExactDiv(OneG, MaxWeight) * ExactDiv(OneG, MaxWeight)
        THEN MaxWeight
        ELSE ExactDiv(OneG, Norm(d[k]))]

(***************************************************************************)
(* Window-statistics provider (wristpy.ggir.metrics_calc): one rolling     *)
(* mean and one rolling SD per axis for each row of the window it is       *)
(* given.                                                                  *)
(***************************************************************************)
moving_mean_fast(window) == [k \in 1..Len(window) |-> RowKinds[window[k]].mean]
moving_SD_fast(window) == [k \in 1..Len(window) |-> RowKinds[window[k]].sd]

\* DataFrame.filter(mask): the rows whose mask entry is true, in order.
RECURSIVE Filter(_, _)
Filter(rows, mask) ==
    IF rows = <<>> THEN <<>>
    ELSE LET rest == Filter(Tail(rows), Tail(mask))
         IN  IF Head(mask) THEN <<Head(rows)>> \o rest ELSE rest

\* line 205: no motion iff every axis has SD < sd_crit and |mean| < 2 g.
no_motion(acc_SD, acc_mean) ==
    [k \in 1..Len(acc_mean) |->
        /\ \A a \in Axes : acc_SD[k][a] < sd_crit
        /\ \A a \in Axes : Abs(acc_mean[k][a]) < MeanLimit]

\* lines 197-208: the working set of the fit.
WorkingSet(window) ==
    LET acc_SD == moving_SD_fast(window)
        acc_mean == moving_mean_fast(window)
    IN  Filter(acc_mean, no_motion(acc_SD, acc_mean))

ColMin(rows, a) == CHOOSE m \in {rows[k][a] : k \in 1..Len(rows)} :
                      \A k \in 1..Len(rows) : m <= rows[k][a]
ColMax(rows, a) == CHOOSE m \in {rows[k][a] : k \in 1..Len(rows)} :
                      \A k \in 1..Len(rows) : m >= rows[k][a]

\* lines 216-218: one axis of the sphere check, on a non-empty working set.
AxisPasses(rows, a) ==
    (ColMin(rows, a) < -sphere_crit) /\ (ColMax(rows, a) > sphere_crit)

\* lines 214-220: the number of axes that pass.
GGIR_check(rows) == Cardinality({a \in Axes : AxisPasses(rows, a)})

\* Mutant of apply_calibration: every column is transformed with the first
\* axis's scale and offset.
apply_calibrationFirstAxis(table, sc, off) ==
    [k \in 1..Len(table) |->
        [a \in Axes |-> ExactDiv(table[k][a] * sc[1], 100) + off[1]]]

\* lines 158-163: out[axis] = table[axis] * scale[axis] + offset[axis].
apply_calibration(table, sc, off) ==
    [k \in 1..Len(table) |->
        [a \in Axes |-> ExactDiv(table[k][a] * sc[a], 100) + off[a]]]

\* lines 158-165: DataFrame.select builds a new table out of expressions
\* over the columns; the table it is called on keeps its rows.
AfterSelect(table) == table

\* The OutputData the orchestrator returns.
OutputData(acc, sc, off, es, ee, t) ==
    [kind |-> "returned", cal_acceleration |-> acc, scale |-> sc, offset |-> off,
     sampling_rate |-> sampling_rate, cal_error_start |-> es,
     cal_error_end |-> ee, time |-> t]

\* Mutant of Accepted: an end error of exactly 0.01 is accepted.
AcceptedAtLimit(err_start, err_end) == (err_end < err_start) /\ (err_end <= ErrLimit)

\* line 272: the acceptance rule.
Accepted(err_start, err_end) == (err_end < err_start) /\ (err_end < ErrLimit)

\* abs(a - b) on floats that may be np.Inf; inf - inf is nan.
AbsDiff(a, b) ==
    IF a = Inf /\ b = Inf THEN "nan"
    ELSE IF a = Inf \/ b = Inf THEN "inf"
    ELSE "finite"

\* line 263: abs(residual[i] - residual[i - 1]) < tol.
Converged(residual, i) ==
    LET a == PyIndex(residual, i)
        b == PyIndex(residual, i - 1)
    IN  AbsDiff(a, b) = "finite" /\ Abs(a - b) < tol

\* Mutant of Window: the window never grows.
WindowFixed == nh

\* The current window: nh + i_h * n12h (lines 93, 94, 109).
Window == nh + i_h * n12h

(***************************************************************************)
(* Initial state: the arguments of one start_ggir_calibration call.        *)
(***************************************************************************)
Start ==
    /\ pc = "start"
    /\ nh = 0 /\ n12h = 0 /\ i_h = 0
    /\ finished = FALSE
    /\ valid_calibration = TRUE
    /\ offset = Unbound /\ scale = Unbound
    /\ cal_err_start = Unbound /\ cal_err_end = Unbound
    /\ fit = NoFit
    /\ result = NoResult
    /\ warnings = <<>>
    /\ fitLog = <<>>
    /\ applyLog = <<>>
    /\ accel_raw = NoTable

\* Calls that vary the recording length, the time table, the sampling rate
\* and min_hours, with a fitter limited to one ICP round.
InitOrchestrator ==
    /\ rec \in Recordings(1..3, MaxRows)
    /\ time_data \in {TimeStamps(Len(rec)), TimeStamps(Len(rec) + 1)}
    /\ sampling_rate \in Rates
    /\ min_hours \in MinHoursChoices
    /\ max_iter = 1
    /\ Start

\* Calls that vary the stillness statistics and max_iter, at 2/65536 Hz
\* (one row per 12-hour block) and min_hours = 12.
InitFitter ==
    /\ rec \in Recordings(Kinds, MaxFitRows)
    /\ time_data = TimeStamps(Len(rec))
    /\ sampling_rate = 2
    /\ min_hours = 12
    /\ max_iter \in 0..MaxIter
    /\ Start

\* The same calls on recordings of a device already in calibration.
InitCalibrated ==
    /\ rec \in Recordings(CalibratedKinds, MaxFitRows)
    /\ time_data = TimeStamps(Len(rec))
    /\ sampling_rate = 2
    /\ min_hours = 12
    /\ max_iter \in 0..MaxIter
    /\ Start

\* The same calls on the recordings of the biased device.
InitBiased ==
    /\ rec \in BiasedRecordings
    /\ time_data = TimeStamps(Len(rec))
    /\ sampling_rate = 2
    /\ min_hours = 12
    /\ max_iter \in BiasedIters
    /\ Start

Init == InitOrchestrator \/ InitFitter \/ InitCalibrated \/ InitBiased

\* Mutant of Insufficient: a recording of exactly nh rows is skipped too.
InsufficientLoose(height, n) == height <= n

\* line 66: the sufficiency test.
Insufficient(height, n) == height < n

(***************************************************************************)
(* lines 56-90: read the input, compute nh and n12h, return the raw data   *)
(* with a warning when the recording is shorter than nh.                   *)
(***************************************************************************)
Entry ==
    /\ pc = "start"
    /\ nh' = PyInt(min_hours * 3600 * sampling_rate)
    /\ n12h' = PyInt(12 * 3600 * sampling_rate)
    /\ i_h' = 0
    /\ finished' = FALSE
    /\ valid_calibration' = TRUE
    /\ IF Insufficient(Len(accel_data), nh')
       THEN /\ warnings' = Append(warnings, "insufficient")
            /\ result' = OutputData(accel_data, Scalar(0), Scalar(0),
                                    Scalar(0), Scalar(0), time_data)
            /\ pc' = "ret_insufficient"
       ELSE /\ pc' = "loop"
            /\ UNCHANGED <<warnings, result>>
    /\ UNCHANGED <<rec, time_data, sampling_rate, min_hours, max_iter, offset, scale,
                   cal_err_start, cal_err_end, fit, fitLog, applyLog, accel_raw>>

\* lines 93-94: the prefix of a table handed to the fitter.
Trimmed(table) == PySlice(table, Window)

(***************************************************************************)
(* lines 93-108 and 197-211: trim both tables to the window, call the      *)
(* fitter, which takes the rolling statistics and keeps the no-motion rows.*)
(***************************************************************************)
FitCall ==
    /\ pc = "loop"
    /\ Len(fitLog) < MaxRounds
    /\ fit' = [active |-> TRUE,
               acc_mean_noMotion |-> WorkingSet(Trimmed(rec)),
               offset |-> Zeros, scale |-> Ones,
               weights |-> <<>>, residual |-> <<>>, i |-> Unbound, rounds |-> 0,
               cal_err_start |-> Unbound]
    /\ fitLog' = Append(fitLog, [i_h |-> i_h,
                                 accel |-> Trimmed(accel_data),
                                 time |-> Trimmed(time_data),
                                 verdict |-> "running"])
    /\ pc' = "sphere"
    /\ UNCHANGED <<rec, time_data, sampling_rate, min_hours, max_iter, nh, n12h, i_h,
                   finished, valid_calibration, offset, scale, cal_err_start,
                   cal_err_end, result, warnings, applyLog, accel_raw>>

\* The last fitLog entry with its verdict filled in.
Logged(v) == [fitLog EXCEPT ![Len(fitLog)].verdict = v]

\* lines 95-101: the fitter's return value lands in the orchestrator's locals.
FitReturns(ok, off, sc, es, ee) ==
    /\ finished' = ok
    /\ offset' = off
    /\ scale' = sc
    /\ cal_err_start' = es
    /\ cal_err_end' = ee
    /\ fit' = NoFit
    /\ fitLog' = Logged(IF ok THEN "accepted" ELSE "rejected")
    /\ pc' = "verdict"

(***************************************************************************)
(* lines 213-236: the sphere coverage check.  min() and max() of an empty  *)
(* column are None, and None < -sphere_crit raises TypeError.              *)
(***************************************************************************)
SphereCheck ==
    /\ pc = "sphere"
    /\ IF fit.acc_mean_noMotion = <<>>
       THEN /\ result' = [kind |-> "raised", error |-> "TypeError"]
            /\ fit' = NoFit
            /\ fitLog' = Logged("raised")
            /\ pc' = "raised"
            /\ UNCHANGED <<finished, offset, scale, cal_err_start, cal_err_end>>
       ELSE IF GGIR_check(fit.acc_mean_noMotion) # 3
       THEN /\ FitReturns(FALSE, fit.offset, fit.scale, Scalar(0), Scalar(0))
            /\ UNCHANGED result
       ELSE /\ fit' = [fit EXCEPT
                         !.offset = Zeros, !.scale = Ones,
                         !.weights = [k \in 1..Len(fit.acc_mean_noMotion) |->
                                         MaxWeight],
                         !.residual = <<Inf>>,
                         !.cal_err_start =
                             Scalar(CalError(fit.acc_mean_noMotion))]
            /\ pc' = IF max_iter > 0 THEN "icp" ELSE "fit_end"
            /\ UNCHANGED <<finished, offset, scale, cal_err_start, cal_err_end,
                           result, fitLog>>
    /\ UNCHANGED <<rec, time_data, sampling_rate, min_hours, max_iter, nh, n12h, i_h,
                   valid_calibration, warnings, applyLog, accel_raw>>

\* line 254: scale = scalech * scale, both in hundredths.
NextScale(scalech, sc) ==
    [a \in Axes |-> ExactDiv(scalech[a] * sc[a], 100)]

\* line 255: offset = offsetch + (offset / scale), with the updated scale.
NextOffset(offsetch, off, sc) ==
    [a \in Axes |->
        offsetch[a] + ExactDiv(off[a] * 100, sc[a])]

(***************************************************************************)
(* lines 238-264: one round of the ICP loop.  A working-set row that the   *)
(* current scale and offset map to (0, 0, 0) has a NaN closest point, and  *)
(* LinearRegression.fit raises ValueError on a NaN target.  The round's    *)
(* index i is the number of rounds run before it, and the loop variable    *)
(* keeps that value when the loop ends, by break or by running out.        *)
(***************************************************************************)
IcpRound ==
    /\ pc = "icp"
    /\ fit.rounds < max_iter
    /\ LET i == fit.rounds
           curr == Affine(fit.acc_mean_noMotion, fit.scale, fit.offset)
       IN  IF HasNaN(curr)
           THEN /\ result' = [kind |-> "raised", error |-> "ValueError"]
                /\ fit' = NoFit
                /\ fitLog' = Logged("raised")
                /\ pc' = "raised"
           ELSE LET closest_point == ClosestPoint(curr)
                    lr == Regression(curr, closest_point, fit.weights)
                    scalech == [a \in Axes |-> lr[a].coef_]
                    offsetch == [a \in Axes |-> lr[a].intercept_]
                    sc == NextScale(scalech, fit.scale)
                    off == NextOffset(offsetch, fit.offset, sc)
                    d == Diff(Fitted(curr, lr), closest_point)
                    res == Append(fit.residual, Residual(d, fit.weights))
                    stop == Converged(res, i)
                IN  /\ fit' = [fit EXCEPT
                                 !.scale = sc, !.offset = off,
                                 !.weights = NextWeights(d),
                                 !.residual = res,
                                 !.rounds = fit.rounds + 1,
                                 !.i = i]
                    /\ pc' = IF stop \/ i + 1 >= max_iter
                             THEN "fit_end" ELSE "icp"
                    /\ UNCHANGED <<result, fitLog>>
    /\ UNCHANGED <<rec, time_data, sampling_rate, min_hours, max_iter, nh, n12h, i_h,
                   finished, valid_calibration, offset, scale, cal_err_start,
                   cal_err_end, warnings, applyLog, accel_raw>>

(***************************************************************************)
(* lines 266-275: the end error and the acceptance rule.                   *)
(***************************************************************************)
FitEnd ==
    /\ pc = "fit_end"
    /\ LET acc_cal_pd == Affine(fit.acc_mean_noMotion, fit.scale, fit.offset)
           ee == CalError(acc_cal_pd)
       IN  FitReturns(Accepted(fit.cal_err_start[1], ee), fit.offset,
                      fit.scale, fit.cal_err_start, Scalar(ee))
    /\ UNCHANGED <<rec, time_data, sampling_rate, min_hours, max_iter, nh, n12h, i_h,
                   valid_calibration, result, warnings, applyLog, accel_raw>>

\* Mutant of Covers: a window of exactly the dataset's length does not count.
CoversStrict(w, height) == w > height

\* line 109: the window already covers the whole dataset.
Covers(w, height) == w >= height

(***************************************************************************)
(* lines 109-131: a rejected fit on a window that covers the dataset.      *)
(***************************************************************************)
GiveUp ==
    /\ pc = "verdict"
    /\ ~finished /\ Covers(Window, Len(accel_data))
    /\ finished' = TRUE
    /\ valid_calibration' = FALSE
    /\ warnings' = Append(warnings, "not_done")
    /\ result' = OutputData(accel_data, Scalar(0), Scalar(0),
                            Scalar(0), Scalar(0), time_data)
    /\ pc' = "ret_invalid"
    /\ UNCHANGED <<rec, time_data, sampling_rate, min_hours, max_iter, nh, n12h, i_h,
                   offset, scale, cal_err_start, cal_err_end, fit, fitLog,
                   applyLog, accel_raw>>

(***************************************************************************)
(* lines 109, 132, 92: a rejected fit with data remaining; next round.     *)
(***************************************************************************)
Expand ==
    /\ pc = "verdict"
    /\ ~finished /\ ~Covers(Window, Len(accel_data))
    /\ i_h' = i_h + 1
    /\ pc' = "loop"
    /\ UNCHANGED <<rec, time_data, sampling_rate, min_hours, max_iter, nh, n12h,
                   finished, valid_calibration, offset, scale, cal_err_start,
                   cal_err_end, fit, result, warnings, fitLog, applyLog, accel_raw>>

\* Mutant of ApplyTarget: the transform is applied to the fitting window.
ApplyTrimmed == Trimmed(accel_data)

\* line 135: the table apply_calibration is called on.
ApplyTarget == accel_data

(***************************************************************************)
(* lines 132-151: an accepted fit; leave the loop, transform, return.      *)
(***************************************************************************)
Accept ==
    /\ pc = "verdict"
    /\ finished
    /\ i_h' = i_h + 1
    /\ IF finished /\ valid_calibration
       THEN /\ applyLog' = Append(applyLog, ApplyTarget)
            /\ accel_raw' = AfterSelect(ApplyTarget)
            /\ result' = OutputData(apply_calibration(ApplyTarget, scale, offset),
                                    scale, offset, cal_err_start, cal_err_end,
                                    time_data)
            /\ pc' = "ret_accepted"
       ELSE /\ result' = [kind |-> "raised", error |-> "UnboundLocalError"]
            /\ pc' = "raised"
            /\ UNCHANGED <<applyLog, accel_raw>>
    /\ UNCHANGED <<rec, time_data, sampling_rate, min_hours, max_iter, nh, n12h,
                   finished, valid_calibration, offset, scale, cal_err_start,
                   cal_err_end, fit, warnings, fitLog>>

Next == Entry \/ FitCall \/ SphereCheck \/ IcpRound \/ FitEnd
        \/ GiveUp \/ Expand \/ Accept

Spec == Init /\ [][Next]_vars

(***************************************************************************)
(* apply_calibration called on its own: a table, a scale and an offset     *)
(* that differ from axis to axis.  Table values are multiples of 0.01 g.   *)
(***************************************************************************)
ApplyRows == {<<100, -200, 300>>, <<-400, 0, 500>>, <<15000, -2000, 3000>>}
ApplyScales == {<<100, 100, 100>>, <<50, 98, 103>>, <<160, 160, 160>>}
ApplyOffsets == {<<0, 0, 0>>, <<48, 60, 64>>, <<-30, 0, 25>>}

InitApply ==
    /\ accel_raw \in UNION {[1..m -> ApplyRows] : m \in 0..MaxApplyRows}
    /\ scale \in ApplyScales
    /\ offset \in ApplyOffsets
    /\ pc = "apply_call"
    /\ rec = <<>> /\ time_data = <<>>
    /\ sampling_rate = 2 /\ min_hours = 12 /\ max_iter = 0
    /\ nh = 0 /\ n12h = 0 /\ i_h = 0
    /\ finished = FALSE
    /\ valid_calibration = TRUE
    /\ cal_err_start = Unbound /\ cal_err_end = Unbound
    /\ fit = NoFit
    /\ result = NoResult
    /\ warnings = <<>>
    /\ fitLog = <<>>
    /\ applyLog = <<>>

\* lines 154-165: one call of apply_calibration(accel_raw, scale, offset).
ApplyCall ==
    /\ pc = "apply_call"
    /\ applyLog' = Append(applyLog, accel_raw)
    /\ result' = [kind |-> "table",
                  cal_acceleration |-> apply_calibration(accel_raw, scale, offset)]
    /\ accel_raw' = AfterSelect(accel_raw)
    /\ pc' = "applied"
    /\ UNCHANGED <<rec, time_data, sampling_rate, min_hours, max_iter, nh, n12h, i_h,
                   finished, valid_calibration, offset, scale, cal_err_start,
                   cal_err_end, fit, warnings, fitLog>>

SpecApply == InitApply /\ [][ApplyCall]_vars

(***************************************************************************)
(* Vocabulary of the properties.                                           *)
(***************************************************************************)
Height == Len(accel_data)
Returned == pc \in {"ret_insufficient", "ret_invalid", "ret_accepted"}
Ended == Returned \/ pc = "raised"
LastCall == fitLog[Len(fitLog)]
WindowOf(i) == nh + i * n12h
RawResult == OutputData(accel_data, Scalar(0), Scalar(0), Scalar(0), Scalar(0),
                        time_data)
WellFormedInput == Len(time_data) = Len(rec) /\ sampling_rate > 0

\* The first n rows of a table (n >= 0), the whole table when it is shorter.
Leading(table, n) == [k \in 1..Min(n, Len(table)) |-> table[k]]

\* The rows a window w selects from a table: its leading w rows, and for a
\* negative w all but its last -w rows.
Selected(table, w) ==
    IF w >= 0 THEN Leading(table, w)
    ELSE Leading(table, Max(Len(table) + w, 0))

(***************************************************************************)
(* C1 (as amended).  Round i hands closest_point_fit the rows that the     *)
(* window nh + i*n12h selects from the acceleration table and from the     *)
(* time table: the leading nh + i*n12h rows, or the whole table when it    *)
(* has fewer rows.  Rounds are numbered 0, 1, 2, ... without gaps, so the  *)
(* window grows by one 12-hour block per round; every round but the last   *)
(* was rejected with data remaining; and a return through the accepted     *)
(* path follows an accepted last round.                                    *)
(***************************************************************************)
C1_WindowExpansion ==
    /\ \A k \in 1..Len(fitLog) :
          /\ fitLog[k].i_h = k - 1
          /\ fitLog[k].accel = Selected(accel_data, WindowOf(k - 1))
          /\ fitLog[k].time = Selected(time_data, WindowOf(k - 1))
          /\ k < Len(fitLog) =>
                /\ fitLog[k].verdict = "rejected"
                /\ WindowOf(k - 1) < Height
    /\ pc = "ret_accepted" => fitLog # <<>> /\ LastCall.verdict = "accepted"
    /\ (fitLog # <<>> /\ LastCall.verdict = "accepted") =>
          pc \in {"verdict", "ret_accepted"}
    /\ pc = "loop" =>
          /\ Len(fitLog) = i_h
          /\ Height >= nh
          /\ fitLog # <<>> => LastCall.verdict = "rejected"

\* C1 witness: a third round runs after two rejected rounds.
C1_Witness ==
    /\ Len(fitLog) = 3
    /\ n12h > 0
    /\ LastCall.verdict = "accepted"
    /\ Len(LastCall.accel) = nh + 2 * n12h

\* C1 as originally stated: on well-formed input with at least nh rows,
\* round i is handed exactly nh + i*n12h rows of each table.
C1_ExactRows ==
    (WellFormedInput /\ Height >= nh) =>
        \A k \in 1..Len(fitLog) :
            /\ Len(fitLog[k].accel) = WindowOf(k - 1)
            /\ Len(fitLog[k].time) = WindowOf(k - 1)

(***************************************************************************)
(* C2.  A recording shorter than nh is returned raw: no fitter call, the   *)
(* acceleration table and the time table as given, scale, offset and both  *)
(* errors 0, and exactly one insufficiency warning.                        *)
(***************************************************************************)
C2_Insufficient ==
    /\ (pc # "start" /\ Height < nh) =>
        /\ pc = "ret_insufficient"
        /\ fitLog = <<>>
        /\ applyLog = <<>>
        /\ result = RawResult
        /\ result.cal_acceleration = accel_data
        /\ result.time = time_data
        /\ warnings = <<"insufficient">>
    /\ pc = "ret_insufficient" => Height < nh

\* C2 witness: a non-empty recording returned as insufficient.
C2_Witness == pc = "ret_insufficient" /\ Height > 0 /\ Height = nh - 1

(***************************************************************************)
(* C3.  The run returns as invalid exactly when the last round was         *)
(* rejected on a window that covers the dataset; every earlier round was   *)
(* rejected too, nothing is transformed, and the result is the raw table   *)
(* with scale, offset and both errors 0 whatever the rejected fit returned.*)
(***************************************************************************)
C3_Invalid ==
    /\ (pc = "ret_invalid") <=>
          /\ fitLog # <<>>
          /\ pc # "verdict"
          /\ LastCall.verdict = "rejected"
          /\ WindowOf(LastCall.i_h) >= Height
    /\ (valid_calibration = FALSE) <=> (pc = "ret_invalid")
    /\ pc = "ret_invalid" =>
          /\ \A k \in 1..Len(fitLog) : fitLog[k].verdict = "rejected"
          /\ applyLog = <<>>
          /\ result = RawResult
          /\ result.cal_acceleration = accel_data
          /\ warnings = <<"not_done">>

\* C3 witness: invalid after an expansion, the discarded fit having
\* reported non-zero errors.
C3_Witness ==
    /\ pc = "ret_invalid"
    /\ Len(fitLog) >= 2
    /\ cal_err_start # Scalar(0) /\ cal_err_end # Scalar(0)
    /\ result.cal_error_start = Scalar(0) /\ result.cal_error_end = Scalar(0)
    /\ result.scale = Scalar(0)

(***************************************************************************)
(* C4.  An accepted run calls apply_calibration once, on the whole         *)
(* acceleration table, with the accepted round's scale and offset; the     *)
(* returned table has one transformed row per input row and the returned   *)
(* time table is the input time table.  No other run transforms anything.  *)
(***************************************************************************)
C4_ApplyOnce ==
    /\ Len(applyLog) <= 1
    /\ (applyLog # <<>>) <=> (pc = "ret_accepted")
    /\ pc = "ret_accepted" =>
          /\ applyLog = <<accel_data>>
          /\ Len(result.cal_acceleration) = Height
          /\ \A k \in 1..Height : \A a \in Axes :
                result.cal_acceleration[k][a]
                    = (accel_data[k][a] * scale[a]) \div 100 + offset[a]
          /\ result.scale = scale /\ result.offset = offset
          /\ result.time = time_data
          /\ Len(time_data) = Height => Len(result.time) = Len(result.cal_acceleration)

\* C4 witness: accepted on a window shorter than the recording, with
\* parameters that change the data.
C4_Witness ==
    /\ pc = "ret_accepted"
    /\ Len(LastCall.accel) < Height
    /\ result.cal_acceleration # accel_data

(***************************************************************************)
(* C5 (as stated).  The number of fitter invocations is bounded by the     *)
(* number of 12-hour blocks in the recording.  A block holds at least one  *)
(* row, so the claim allows at most one call per row of the recording,     *)
(* plus the first.                                                         *)
(***************************************************************************)
C5_Termination ==
    WellFormedInput => Len(fitLog) <= Height + 1

(***************************************************************************)
(* C6 (as stated).  A call whose time table and acceleration table differ  *)
(* in length, or whose sampling rate is not positive, goes no further than *)
(* the entry point: no sufficiency verdict, no fitter call, no result.     *)
(***************************************************************************)
C6_InputValidation ==
    ~WellFormedInput =>
        /\ pc = "start"
        /\ fitLog = <<>>
        /\ result = NoResult

(***************************************************************************)
(* C7.  A fit that got past the sphere check reports accepted iff          *)
(* cal_err_end < cal_err_start and cal_err_end < 0.01, both strict, and    *)
(* hands back the offset and scale the loop ended with, the start error    *)
(* and the end error, accepted or not.                                     *)
(***************************************************************************)
C7_AcceptanceRule ==
    [][pc = "fit_end" =>
          /\ pc' = "verdict"
          /\ finished' <=> (/\ cal_err_end'[1] < cal_err_start'[1]
                            /\ cal_err_end'[1] < 1000)
          /\ offset' = fit.offset
          /\ scale' = fit.scale
          /\ cal_err_start' = fit.cal_err_start]_vars

\* C7 witness: a fit that ran ICP rounds, lowered the error to exactly 0.01
\* and is rejected for it, handing back a scale and an offset that are not
\* the identity.
C7_Witness ==
    /\ pc = "verdict"
    /\ LastCall.verdict = "rejected"
    /\ max_iter > 0
    /\ cal_err_end = Scalar(ErrLimit)
    /\ cal_err_end[1] < cal_err_start[1]
    /\ scale # Ones /\ offset # Zeros
    /\ \E a \in Axes : \E b \in Axes : offset[a] # offset[b]

\* The working set of round i (i = 0, 1, ...).
WorkingSetOf(i) == WorkingSet(Selected(rec, WindowOf(i)))

\* The axes of a working set whose minimum is below -sphere_crit and whose
\* maximum is above sphere_crit; an empty working set has neither.
PassingAxes(rows) ==
    {a \in Axes : /\ rows # <<>>
                  /\ \E k \in 1..Len(rows) : rows[k][a] < -3000
                  /\ \E k \in 1..Len(rows) : rows[k][a] > 3000}

(***************************************************************************)
(* C8 (as stated).  A fit whose working set has fewer than 3 passing axes  *)
(* returns not accepted with offset (0,0,0), scale (1,1,1) and both errors *)
(* 0, and never enters the ICP loop.                                       *)
(***************************************************************************)
C8_SphereCheck ==
    \A k \in 1..Len(fitLog) :
        (/\ WellFormedInput /\ n12h > 0
         /\ Cardinality(PassingAxes(WorkingSetOf(k - 1))) < 3) =>
            /\ fitLog[k].verdict \in {"running", "rejected"}
            /\ k = Len(fitLog) => pc \notin {"icp", "fit_end", "raised"}
            /\ (k = Len(fitLog) /\ pc = "verdict") =>
                  /\ ~finished
                  /\ offset = Zeros /\ scale = Ones
                  /\ cal_err_start = Scalar(0) /\ cal_err_end = Scalar(0)

(***************************************************************************)
(* C9 (as stated).  A recording of exactly nh rows none of which is        *)
(* classified as no-motion ends as a returned invalid result equal to the  *)
(* raw input with both errors 0; no exception ends the run.                *)
(***************************************************************************)
C9_NoStillness ==
    (/\ pc # "start" /\ WellFormedInput /\ n12h > 0
     /\ Height = nh /\ WorkingSet(rec) = <<>>) =>
        /\ pc # "raised"
        /\ Ended => (pc = "ret_invalid" /\ result = RawResult)

(***************************************************************************)
(* C10 (as stated).  A recording longer than 12 hours and shorter than     *)
(* min_hours is still calibrated: it is not returned as insufficient, and  *)
(* the fitter is called on the whole recording.                            *)
(* The recording lasts 65536 * Height / sampling_rate seconds.             *)
(***************************************************************************)
C10_ShortRecording ==
    (/\ pc # "start"
     /\ sampling_rate > 0
     /\ 65536 * Height > 12 * 3600 * sampling_rate
     /\ 65536 * Height < min_hours * 3600 * sampling_rate) =>
        /\ pc # "ret_insufficient"
        /\ fitLog # <<>> => fitLog[1].accel = accel_data

(***************************************************************************)
(* C11.  The table apply_calibration returns has one row per input row and *)
(* the three columns of the input in their order, and every value is its   *)
(* own column's input value times that column's scale plus that column's   *)
(* offset (scale in hundredths: 100 * (out - offset) = in * scale); the    *)
(* table it was called on holds after the call what it held before.        *)
(***************************************************************************)
C11_AffineApply ==
    pc = "applied" =>
        LET in == applyLog[1]
            out == result.cal_acceleration
        IN  /\ Len(out) = Len(in)
            /\ DOMAIN out = DOMAIN in
            /\ \A k \in DOMAIN in :
                  /\ DOMAIN out[k] = DOMAIN in[k]
                  /\ \A a \in DOMAIN in[k] :
                        100 * (out[k][a] - offset[a]) = in[k][a] * scale[a]
            /\ accel_raw = in

\* C11 witness: a table of two different rows transformed with a scale and
\* an offset that differ on every pair of axes, the offset non-zero.
C11_Witness ==
    /\ pc = "applied"
    /\ Len(applyLog[1]) = 2
    /\ applyLog[1][1] # applyLog[1][2]
    /\ \A a \in Axes : \A b \in Axes :
          a # b => (scale[a] # scale[b] /\ offset[a] # offset[b])
    /\ \A a \in Axes : offset[a] # 0
    /\ result.cal_acceleration # applyLog[1]

\* The residual of ICP round j (j = 1, 2, ...) of the running fit.
RoundResidual(j) == fit.residual[j + 1]

\* Round j's residual is within tol of the residual of round j - 1.
CloseToPrevious(j) ==
    j >= 2 /\ Abs(RoundResidual(j) - RoundResidual(j - 1)) < tol

(***************************************************************************)
(* C12 (as stated).  The ICP loop never runs more than max_iter rounds; it *)
(* goes on to another round only if the round just run is not within tol   *)
(* of its predecessor, so no round but the last is; and it ends either     *)
(* after max_iter rounds or with a last round within tol of its            *)
(* predecessor.                                                            *)
(***************************************************************************)
C12_Convergence ==
    pc \in {"icp", "fit_end"} =>
        /\ fit.rounds <= max_iter
        /\ \A j \in 2..(fit.rounds - 1) : ~CloseToPrevious(j)
        /\ pc = "icp" =>
              /\ fit.rounds < max_iter
              /\ ~CloseToPrevious(fit.rounds)
        /\ pc = "fit_end" =>
              fit.rounds = max_iter \/ CloseToPrevious(fit.rounds)

====
